---------------------------- MODULE Spec2Model ----------------------------
(***************************************************************************)
(* DIGIPIN grid codec (kokamkarsahil/digipin-rust).                        *)
(*                                                                         *)
(* The crate is a set of pure functions.  Two generations of the codec are *)
(* in the sources and both are modelled:                                   *)
(*   - encode.rs / decode.rs / constants.rs (lib.rs holds the same code in *)
(*     one file): get_digipin, get_coordinates_from_digipin,               *)
(*     find_char_in_grid, LOOKUP;                                          *)
(*   - encoding.rs / decoding.rs: encoding_get_digipin, parse_ascii,       *)
(*     parse_unicode, decoding_get_coordinates_from_digipin,               *)
(*     decoding_LOOKUP.                                                    *)
(*                                                                         *)
(* Representation.                                                         *)
(*   char / u8   its code point, a natural number ('F' is 70, '-' is 45).  *)
(*   &str        the sequence of its chars.                                *)
(*   f64         [m, e], the value m * 2^e with m odd (or 0 * 2^0) and m   *)
(*               below 2^53; m is a number of any size, written in base    *)
(*               2^15.  F64Add, F64Sub, F64Mul and F64Div round the exact  *)
(*               result to 53 significant binary digits, to nearest, ties  *)
(*               to even, as IEEE 754 does.  Every f64 of the model is     *)
(*               finite, not negative and in the normal range: the inputs  *)
(*               are positive and the code subtracts only after its range  *)
(*               checks.                                                   *)
(*   Result<T>   [ok |-> TRUE, val |-> v] or                               *)
(*               [ok |-> FALSE, err |-> variant, arg |-> payload].         *)
(***************************************************************************)
EXTENDS Integers, Sequences, FiniteSets, TLC

VARIABLES
    op,          \* the call the state records
    latitude,    \* get_digipin argument
    longitude,   \* get_digipin argument
    encoded,     \* result of encode.rs get_digipin(latitude, longitude)
    encoded_alt, \* result of encoding.rs get_digipin(latitude, longitude)
    digipin,     \* get_coordinates_from_digipin argument
    decoded,     \* result of decode.rs get_coordinates_from_digipin(digipin)
    decoded_alt, \* result of decoding.rs get_coordinates_from_digipin(digipin)
    stripped,    \* results of both decoders for digipin with every '-' removed
    idx_pair,    \* (idx_lat, idx_lon) of encode.rs get_digipin, None on an error
    idx_pair_alt, \* (idx_lat, idx_lon) of encoding.rs get_digipin, None on an error
    parsed,      \* index pairs the parsers of decode.rs and decoding.rs return
    bounds,      \* result of decoding.rs get_bounds_from_digipin(digipin)
    reencoded,   \* result of get_digipin on the coordinates in `decoded`
    adjacent     \* get_bounds_from_digipin of the cells south and east of idx_pair

vars == <<op, latitude, longitude, encoded, encoded_alt, digipin, decoded,
          decoded_alt, stripped, idx_pair, idx_pair_alt, parsed, bounds,
          reencoded, adjacent>>

---------------------------------------------------------------------------
(* Result<T, DigipinError> *)

Ok(v) == [ok |-> TRUE, val |-> v]

Err(variant, payload) == [ok |-> FALSE, err |-> variant, arg |-> payload]

NotCalled == [ok |-> FALSE, err |-> "NotCalled", arg |-> 0]

IsErr(r, variant) == ~r.ok /\ r.err = variant

---------------------------------------------------------------------------
(* f64 arithmetic *)

Min(a, b) == IF a <= b THEN a ELSE b

Max(a, b) == IF a >= b THEN a ELSE b

\* natural numbers of any size: digits in base 2^15, least significant
\* first, the last digit not 0; <<>> is 0
LimbBits == 15

Limb == 2^15

RECURSIVE BTrim(_)
BTrim(a) ==
    IF a = <<>> \/ a[Len(a)] # 0 THEN a ELSE BTrim(SubSeq(a, 1, Len(a) - 1))

\* for n < 2^31
BFromNat(n) == BTrim(<<n % Limb, (n \div Limb) % Limb, n \div (Limb * Limb)>>)

BDigit(a, i) == IF i <= Len(a) THEN a[i] ELSE 0

\* for a < 2^31
BToNat(a) == BDigit(a, 1) + Limb * BDigit(a, 2) + Limb * Limb * BDigit(a, 3)

RECURSIVE BAddFrom(_, _, _, _)
BAddFrom(a, b, i, carry) ==
    IF i > Len(a) /\ i > Len(b)
      THEN IF carry = 1 THEN <<1>> ELSE <<>>
    ELSE LET t == BDigit(a, i) + BDigit(b, i) + carry
         IN  <<t % Limb>> \o BAddFrom(a, b, i + 1, t \div Limb)

BAdd(a, b) == BAddFrom(a, b, 1, 0)

RECURSIVE BSubFrom(_, _, _, _)
BSubFrom(a, b, i, borrow) ==
    IF i > Len(a) THEN <<>>
    ELSE LET t == BDigit(a, i) - BDigit(b, i) - borrow
         IN  <<t % Limb>> \o BSubFrom(a, b, i + 1, IF t < 0 THEN 1 ELSE 0)

\* a - b for a >= b
BSub(a, b) == BTrim(BSubFrom(a, b, 1, 0))

RECURSIVE BCmpAt(_, _, _)
BCmpAt(a, b, i) ==
    IF i = 0 THEN 0
    ELSE IF a[i] # b[i] THEN (IF a[i] < b[i] THEN -1 ELSE 1)
    ELSE BCmpAt(a, b, i - 1)

\* -1, 0 or 1 as a < b, a = b or a > b
BCmp(a, b) ==
    IF Len(a) < Len(b) THEN -1
    ELSE IF Len(a) > Len(b) THEN 1
    ELSE BCmpAt(a, b, Len(a))

RECURSIVE BMulSmallFrom(_, _, _, _)
BMulSmallFrom(a, k, i, carry) ==
    IF i > Len(a) THEN (IF carry = 0 THEN <<>> ELSE <<carry>>)
    ELSE LET t == a[i] * k + carry
         IN  <<t % Limb>> \o BMulSmallFrom(a, k, i + 1, t \div Limb)

\* a * k for k < 2^15
BMulSmall(a, k) == BTrim(BMulSmallFrom(a, k, 1, 0))

\* a * 2^(15 * n)
BShlLimbs(a, n) == IF a = <<>> \/ n = 0 THEN a ELSE [i \in 1..n |-> 0] \o a

RECURSIVE BMulFrom(_, _, _)
BMulFrom(a, b, i) ==
    IF i > Len(b) THEN <<>>
    ELSE BAdd(BShlLimbs(BMulSmall(a, b[i]), i - 1), BMulFrom(a, b, i + 1))

BMul(a, b) == BMulFrom(a, b, 1)

\* long division of n by d, 0 < d < 2^15, from digit i of n down
RECURSIVE BDivModSmallAt(_, _, _, _, _)
BDivModSmallAt(n, d, i, q, r) ==
    IF i = 0 THEN [q |-> BTrim(q), r |-> r]
    ELSE LET t == r * Limb + n[i]
         IN  BDivModSmallAt(n, d, i - 1, <<t \div d>> \o q, t % d)

BDivModSmall(n, d) == BDivModSmallAt(n, d, Len(n), <<>>, 0)

\* a * 2^k
BShl(a, k) == BShlLimbs(BMulSmall(a, 2^(k % LimbBits)), k \div LimbBits)

\* a div 2^k
BShr(a, k) ==
    IF k \div LimbBits >= Len(a) THEN <<>>
    ELSE BDivModSmall(SubSeq(a, (k \div LimbBits) + 1, Len(a)),
                      2^(k % LimbBits)).q

\* binary digit i of a, digit 0 the least significant
BBit(a, i) == (BDigit(a, (i \div LimbBits) + 1) \div 2^(i % LimbBits)) % 2

\* a mod 2^k = 0
BLowZero(a, k) ==
    /\ \A i \in 1..(k \div LimbBits) : BDigit(a, i) = 0
    /\ BDigit(a, (k \div LimbBits) + 1) % 2^(k % LimbBits) = 0

\* the number of binary digits of a
BLen(a) ==
    IF a = <<>> THEN 0
    ELSE LimbBits * (Len(a) - 1)
           + (CHOOSE k \in 1..LimbBits : 2^(k - 1) <= a[Len(a)] /\ a[Len(a)] < 2^k)

\* the number of trailing zero binary digits of a > 0
BTrailingZeros(a) ==
    CHOOSE k \in 0..(LimbBits * Len(a)) : BLowZero(a, k) /\ BBit(a, k) = 1

\* the dyadic number m * 2^e, brought to m odd, or to 0 * 2^0
Dy(m, e) ==
    IF m = <<>> THEN [m |-> <<>>, e |-> 0]
    ELSE LET z == BTrailingZeros(m) IN [m |-> BShr(m, z), e |-> e + z]

\* the digits of a taken at the exponent e0 <= a.e
DyAt(a, e0) == IF a.m = <<>> THEN <<>> ELSE BShl(a.m, a.e - e0)

DyMinExp(a, b) ==
    IF a.m = <<>> THEN b.e ELSE IF b.m = <<>> THEN a.e ELSE Min(a.e, b.e)

DyAdd(a, b) ==
    LET e0 == DyMinExp(a, b) IN Dy(BAdd(DyAt(a, e0), DyAt(b, e0)), e0)

\* a - b for a >= b
DySub(a, b) ==
    LET e0 == DyMinExp(a, b) IN Dy(BSub(DyAt(a, e0), DyAt(b, e0)), e0)

DyMul(a, b) == Dy(BMul(a.m, b.m), a.e + b.e)

DyCmp(a, b) ==
    LET e0 == DyMinExp(a, b) IN BCmp(DyAt(a, e0), DyAt(b, e0))

DyLe(a, b) == DyCmp(a, b) <= 0

DyLt(a, b) == DyCmp(a, b) < 0

\* round to nearest, ties to even, to 53 significant binary digits
Round53(a) ==
    LET k == BLen(a.m) - 53
    IN  IF k <= 0 THEN a
        ELSE LET kept   == BShr(a.m, k)
                 half   == BBit(a.m, k - 1) = 1
                 sticky == ~BLowZero(a.m, k - 1)
                 up     == half /\ (sticky \/ BBit(kept, 0) = 1)
             IN  Dy(IF up THEN BAdd(kept, <<1>>) ELSE kept, a.e + k)

\* the f64 of a natural number below 2^31
F64Nat(n) == Dy(BFromNat(n), 0)

F64Add(a, b) == Round53(DyAdd(a, b))

F64Sub(a, b) == Round53(DySub(a, b))

F64Mul(a, b) == Round53(DyMul(a, b))

\* a / b for b = d * 2^e with d < 2^15
F64Div(a, b) ==
    IF a.m = <<>> THEN a
    ELSE LET s  == Max(0, 55 + BLen(b.m) - BLen(a.m))
             dm == BDivModSmall(BShl(a.m, s), BToNat(b.m))
         IN  Round53(IF dm.r = 0
                       THEN Dy(dm.q, a.e - b.e - s)
                     ELSE [m |-> BAdd(BMulSmall(dm.q, 2), <<1>>),
                           e |-> a.e - b.e - s - 1])

\* f64::floor
F64Floor(a) == IF a.e >= 0 THEN a ELSE Dy(BShr(a.m, -a.e), 0)

\* f64::min
F64Min(a, b) == IF DyLe(a, b) THEN a ELSE b

\* `x as u32` for an f64 x: truncation toward zero (x is below 2^31 here)
AsU32(a) == LET f == F64Floor(a) IN BToNat(BShl(f.m, f.e))

\* `i as f64` for a u32
AsF64(i) == F64Nat(i)

\* the f64 of a decimal literal, n / d for d = 10^k: the f64 nearest to it
Decimal(n, d) == F64Div(F64Nat(n), F64Nat(d))

\* mutant: the upper end excluded, as `lo..hi` for `lo..=hi`
RangeContains_Exclusive(lo, hi, x) == DyLe(lo, x) /\ DyLt(x, hi)

\* RangeInclusive<f64>::contains
RangeContains(lo, hi, x) == DyLe(lo, x) /\ DyLe(x, hi)

---------------------------------------------------------------------------
(* constants.rs *)

\* code points of the characters the sources name
Ascii == [F |-> 70, C |-> 67, n9 |-> 57, n8 |-> 56,
          J |-> 74, n3 |-> 51, n2 |-> 50, n7 |-> 55,
          K |-> 75, n4 |-> 52, n5 |-> 53, n6 |-> 54,
          L |-> 76, M |-> 77, P |-> 80, T |-> 84,
          f |-> 102, c |-> 99, j |-> 106, k |-> 107,
          l |-> 108, m |-> 109, p |-> 112, t |-> 116]

HYPHEN == 45

\* DIGIPIN_GRID[row][col] of the source is DIGIPIN_GRID[row + 1][col + 1] here
DIGIPIN_GRID ==
    << <<Ascii.F, Ascii.C, Ascii.n9, Ascii.n8>>,
       <<Ascii.J, Ascii.n3, Ascii.n2, Ascii.n7>>,
       <<Ascii.K, Ascii.n4, Ascii.n5, Ascii.n6>>,
       <<Ascii.L, Ascii.M, Ascii.P, Ascii.T>> >>

None == <<>>

Some(row, col) == <<row, col>>

LOOKUP ==
    [[c \in 0..127 |-> None] EXCEPT
        ![Ascii.F] = Some(0, 0), ![Ascii.C] = Some(0, 1),
        ![Ascii.n9] = Some(0, 2), ![Ascii.n8] = Some(0, 3),
        ![Ascii.J] = Some(1, 0), ![Ascii.n3] = Some(1, 1),
        ![Ascii.n2] = Some(1, 2), ![Ascii.n7] = Some(1, 3),
        ![Ascii.K] = Some(2, 0), ![Ascii.n4] = Some(2, 1),
        ![Ascii.n5] = Some(2, 2), ![Ascii.n6] = Some(2, 3),
        ![Ascii.L] = Some(3, 0), ![Ascii.M] = Some(3, 1),
        ![Ascii.P] = Some(3, 2), ![Ascii.T] = Some(3, 3),
        ![Ascii.f] = Some(0, 0), ![Ascii.c] = Some(0, 1),
        ![Ascii.j] = Some(1, 0), ![Ascii.k] = Some(2, 0),
        ![Ascii.l] = Some(3, 0), ![Ascii.m] = Some(3, 1),
        ![Ascii.p] = Some(3, 2), ![Ascii.t] = Some(3, 3)]

\* 36.0 = 9 * 2^2
SPAN == [m |-> <<9>>, e |-> 2]

POWER == 2^20

\* 2.5 = 5 / 2, 38.5 = 77 / 2, 63.5 = 127 / 2, 99.5 = 199 / 2
BOUNDS == [min_lat |-> [m |-> <<5>>, e |-> -1],
           max_lat |-> [m |-> <<77>>, e |-> -1],
           min_lon |-> [m |-> <<127>>, e |-> -1],
           max_lon |-> [m |-> <<199>>, e |-> -1]]

\* the literals 0.5 and 1.0
Half == [m |-> <<1>>, e |-> -1]

One == [m |-> <<1>>, e |-> 0]

---------------------------------------------------------------------------
(* encode.rs (and lib.rs) *)

LatitudeOutOfRange(v) == Err("LatitudeOutOfRange", v)

LongitudeOutOfRange(v) == Err("LongitudeOutOfRange", v)

\* (x >> shift) & 3
Digit(x, shift) == (x \div 2^shift) % 4

\* mutant: the `.min(POWER - 1)` left out
ScaleToIndex_NoClamp(frac) == AsU32(F64Mul(frac, AsF64(POWER)))

\* idx = ((frac * (POWER as f64)) as u32).min(POWER - 1)
ScaleToIndex(frac) == Min(AsU32(F64Mul(frac, AsF64(POWER))), POWER - 1)

\* mutant: the latitude fraction measured from the south edge, not inverted
frac_lat_NotInverted(lat) == F64Div(F64Sub(lat, BOUNDS.min_lat), SPAN)

\* frac_lat = (BOUNDS.max_lat - latitude) / SPAN
frac_lat(lat) == F64Div(F64Sub(BOUNDS.max_lat, lat), SPAN)

\* frac_lon = (longitude - BOUNDS.min_lon) / SPAN
frac_lon(lon) == F64Div(F64Sub(lon, BOUNDS.min_lon), SPAN)

\* mutant: the separators pushed one level late (`level == 3 || level == 6`)
RECURSIVE PushLevels_LateHyphen(_, _, _, _)
PushLevels_LateHyphen(s, level, idx_lat, idx_lon) ==
    IF level = 10 THEN s
    ELSE LET shift == 18 - 2 * level
             row   == Digit(idx_lat, shift)
             col   == Digit(idx_lon, shift)
             s1    == Append(s, DIGIPIN_GRID[row + 1][col + 1])
             s2    == IF level = 3 \/ level = 6 THEN Append(s1, HYPHEN) ELSE s1
         IN  PushLevels_LateHyphen(s2, level + 1, idx_lat, idx_lon)

\* mutant: the digits taken least significant first, `shift = 2 * level`
RECURSIVE PushLevels_LsbFirst(_, _, _, _)
PushLevels_LsbFirst(s, level, idx_lat, idx_lon) ==
    IF level = 10 THEN s
    ELSE LET shift == 2 * level
             row   == Digit(idx_lat, shift)
             col   == Digit(idx_lon, shift)
             s1    == Append(s, DIGIPIN_GRID[row + 1][col + 1])
             s2    == IF level = 2 \/ level = 5 THEN Append(s1, HYPHEN) ELSE s1
         IN  PushLevels_LsbFirst(s2, level + 1, idx_lat, idx_lon)

\* the body of `for level in 0..10`, from `level` to the end
RECURSIVE PushLevels(_, _, _, _)
PushLevels(s, level, idx_lat, idx_lon) ==
    IF level = 10 THEN s
    ELSE LET shift == 18 - 2 * level
             row   == Digit(idx_lat, shift)
             col   == Digit(idx_lon, shift)
             s1    == Append(s, DIGIPIN_GRID[row + 1][col + 1])
             s2    == IF level = 2 \/ level = 5 THEN Append(s1, HYPHEN) ELSE s1
         IN  PushLevels(s2, level + 1, idx_lat, idx_lon)

\* (idx_lat, idx_lon) as get_digipin computes them, None when it returns early
get_digipin_indices(lat, lon) ==
    IF ~RangeContains(BOUNDS.min_lat, BOUNDS.max_lat, lat) THEN None
    ELSE IF ~RangeContains(BOUNDS.min_lon, BOUNDS.max_lon, lon) THEN None
    ELSE Some(ScaleToIndex(frac_lat(lat)), ScaleToIndex(frac_lon(lon)))

\* mutant: the longitude validated before the latitude
get_digipin_LonFirst(lat, lon) ==
    IF ~RangeContains(BOUNDS.min_lon, BOUNDS.max_lon, lon)
      THEN LongitudeOutOfRange(lon)
    ELSE IF ~RangeContains(BOUNDS.min_lat, BOUNDS.max_lat, lat)
      THEN LatitudeOutOfRange(lat)
    ELSE Ok(PushLevels(<<>>, 0, ScaleToIndex(frac_lat(lat)),
                       ScaleToIndex(frac_lon(lon))))

get_digipin(lat, lon) ==
    IF ~RangeContains(BOUNDS.min_lat, BOUNDS.max_lat, lat)
      THEN LatitudeOutOfRange(lat)
    ELSE IF ~RangeContains(BOUNDS.min_lon, BOUNDS.max_lon, lon)
      THEN LongitudeOutOfRange(lon)
    ELSE Ok(PushLevels(<<>>, 0, ScaleToIndex(frac_lat(lat)),
                       ScaleToIndex(frac_lon(lon))))

---------------------------------------------------------------------------
(* decode.rs (and lib.rs) *)

InvalidLength(count) == Err("InvalidLength", count)

InvalidCharacter(ch) == Err("InvalidCharacter", ch)

Coordinates(lat, lon) == [latitude |-> lat, longitude |-> lon]

\* digipin.chars().filter(|&c| c != '-')
FilterHyphens(s) == SelectSeq(s, LAMBDA c : c # HYPHEN)

find_char_in_grid(ch) ==
    IF ch > 127 THEN InvalidCharacter(ch)
    ELSE IF LOOKUP[ch] # None
           THEN Ok(LOOKUP[ch])
           ELSE InvalidCharacter(ch)

\* (idx << 2) | digit on u32, for digit < 4; idx stays below 2^20 over the ten
\* iterations of the callers, so the shift never drops a bit
ShiftOr(idx, digit) == idx * 4 + digit

\* mutant: the `+ 0.5` left out, the cell's north edge for its centre
CenterLat_NoHalf(idx_lat) ==
    F64Sub(BOUNDS.max_lat,
           F64Mul(F64Div(AsF64(idx_lat), AsF64(POWER)), SPAN))

\* center_lat = BOUNDS.max_lat - ((idx_lat as f64 + 0.5) / (POWER as f64)) * SPAN
CenterLat(idx_lat) ==
    F64Sub(BOUNDS.max_lat,
           F64Mul(F64Div(F64Add(AsF64(idx_lat), Half), AsF64(POWER)),
                  SPAN))

\* center_lon = BOUNDS.min_lon + ((idx_lon as f64 + 0.5) / (POWER as f64)) * SPAN
CenterLon(idx_lon) ==
    F64Add(BOUNDS.min_lon,
           F64Mul(F64Div(F64Add(AsF64(idx_lon), Half), AsF64(POWER)),
                  SPAN))

\* the `for _ in 0..10` loop over char_iter from position i (1-based) of the
\* filtered chars, then the check for an eleventh char
RECURSIVE DecodeLoop(_, _, _, _, _)
DecodeLoop(chars, i, idx_lat, idx_lon, count) ==
    IF count = 10
      THEN IF i <= Len(chars)
             THEN InvalidLength(count + 1)
             ELSE Ok(<<idx_lat, idx_lon>>)
    ELSE IF i > Len(chars)
      THEN InvalidLength(count)
    ELSE LET pos == find_char_in_grid(chars[i])
         IN  IF ~pos.ok THEN pos
             ELSE DecodeLoop(chars, i + 1,
                             ShiftOr(idx_lat, pos.val[1]),
                             ShiftOr(idx_lon, pos.val[2]),
                             count + 1)

\* mutant: the number of chars found reported for an input that is too long
get_coordinates_from_digipin_ExactCount(s) ==
    LET idx == DecodeLoop(FilterHyphens(s), 1, 0, 0, 0)
    IN  IF idx.ok
          THEN Ok(Coordinates(CenterLat(idx.val[1]), CenterLon(idx.val[2])))
        ELSE IF idx.err = "InvalidLength" /\ idx.arg > 10
          THEN InvalidLength(Len(FilterHyphens(s)))
        ELSE idx

get_coordinates_from_digipin(s) ==
    LET idx == DecodeLoop(FilterHyphens(s), 1, 0, 0, 0)
    IN  IF ~idx.ok THEN idx
        ELSE Ok(Coordinates(CenterLat(idx.val[1]), CenterLon(idx.val[2])))

---------------------------------------------------------------------------
(* encoding.rs *)

\* constants::POWER_F, the grid power as an f64
POWER_F == [m |-> <<1>>, e |-> 20]

\* idx = (frac * POWER_F).floor().min(POWER_F - 1.0) as u32
FloorToIndex(frac) ==
    AsU32(F64Min(F64Floor(F64Mul(frac, POWER_F)), F64Sub(POWER_F, One)))

\* one vec_u8.push(DIGIPIN_GRID[((idx_lat >> shift) & 3)][((idx_lon >> shift) & 3)])
GridByte(idx_lat, idx_lon, shift) ==
    DIGIPIN_GRID[Digit(idx_lat, shift) + 1][Digit(idx_lon, shift) + 1]

\* (idx_lat, idx_lon) as encoding.rs get_digipin computes them
encoding_get_digipin_indices(lat, lon) ==
    IF ~RangeContains(BOUNDS.min_lat, BOUNDS.max_lat, lat) THEN None
    ELSE IF ~RangeContains(BOUNDS.min_lon, BOUNDS.max_lon, lon) THEN None
    ELSE Some(FloorToIndex(frac_lat(lat)), FloorToIndex(frac_lon(lon)))

encoding_get_digipin(lat, lon) ==
    IF ~RangeContains(BOUNDS.min_lat, BOUNDS.max_lat, lat)
      THEN LatitudeOutOfRange(lat)
    ELSE IF ~RangeContains(BOUNDS.min_lon, BOUNDS.max_lon, lon)
      THEN LongitudeOutOfRange(lon)
    ELSE LET idx_lat == FloorToIndex(frac_lat(lat))
             idx_lon == FloorToIndex(frac_lon(lon))
         IN  Ok(<< GridByte(idx_lat, idx_lon, 18),
                   GridByte(idx_lat, idx_lon, 16),
                   GridByte(idx_lat, idx_lon, 14),
                   HYPHEN,
                   GridByte(idx_lat, idx_lon, 12),
                   GridByte(idx_lat, idx_lon, 10),
                   GridByte(idx_lat, idx_lon, 8),
                   HYPHEN,
                   GridByte(idx_lat, idx_lon, 6),
                   GridByte(idx_lat, idx_lon, 4),
                   GridByte(idx_lat, idx_lon, 2),
                   GridByte(idx_lat, idx_lon, 0) >>)

---------------------------------------------------------------------------
(* decoding.rs *)

decoding_LOOKUP ==
    [[c \in 0..127 |-> None] EXCEPT
        ![Ascii.F] = Some(0, 0), ![Ascii.C] = Some(0, 1),
        ![Ascii.n9] = Some(0, 2), ![Ascii.n8] = Some(0, 3),
        ![Ascii.J] = Some(1, 0), ![Ascii.n3] = Some(1, 1),
        ![Ascii.n2] = Some(1, 2), ![Ascii.n7] = Some(1, 3),
        ![Ascii.K] = Some(2, 0), ![Ascii.n4] = Some(2, 1),
        ![Ascii.n5] = Some(2, 2), ![Ascii.n6] = Some(2, 3),
        ![Ascii.L] = Some(3, 0), ![Ascii.M] = Some(3, 1),
        ![Ascii.P] = Some(3, 2), ![Ascii.T] = Some(3, 3)]

\* char::is_ascii
char_is_ascii(ch) == ch <= 127

\* str::is_ascii
is_ascii(s) == \A i \in 1..Len(s) : char_is_ascii(s[i])

decoding_find_char_in_grid(ch) ==
    IF char_is_ascii(ch) /\ ch < 128 /\ decoding_LOOKUP[ch] # None
      THEN Ok(decoding_LOOKUP[ch])
      ELSE InvalidCharacter(ch)

\* LOOKUP[b as usize].ok_or(DigipinError::InvalidCharacter(b as char))
LookupByte(b) ==
    IF decoding_LOOKUP[b] # None THEN Ok(decoding_LOOKUP[b])
    ELSE InvalidCharacter(b)

\* the two fixed-position loops of parse_ascii: bytes[indices[k]] for k from
\* `k` on (indices are the source's 0-based byte positions)
RECURSIVE ParseAt(_, _, _, _, _)
ParseAt(bytes, indices, k, idx_lat, idx_lon) ==
    IF k > Len(indices) THEN Ok(<<idx_lat, idx_lon>>)
    ELSE LET pos == LookupByte(bytes[indices[k] + 1])
         IN  IF ~pos.ok THEN pos
             ELSE ParseAt(bytes, indices, k + 1,
                          ShiftOr(idx_lat, pos.val[1]),
                          ShiftOr(idx_lon, pos.val[2]))

\* `while i < len { ... if b != b'-' { return Err(InvalidLength(count + 1)) } }`
\* i is the source's 0-based position
RECURSIVE ParseTail(_, _, _, _, _)
ParseTail(bytes, i, idx_lat, idx_lon, count) ==
    IF i >= Len(bytes) THEN Ok(<<idx_lat, idx_lon>>)
    ELSE IF bytes[i + 1] # HYPHEN THEN InvalidLength(count + 1)
    ELSE ParseTail(bytes, i + 1, idx_lat, idx_lon, count)

\* `while i < len && count < 10 { ... }` and what follows it
RECURSIVE ParseScan(_, _, _, _, _)
ParseScan(bytes, i, idx_lat, idx_lon, count) ==
    IF i < Len(bytes) /\ count < 10
      THEN IF bytes[i + 1] = HYPHEN
             THEN ParseScan(bytes, i + 1, idx_lat, idx_lon, count)
             ELSE LET pos == LookupByte(bytes[i + 1])
                  IN  IF ~pos.ok THEN pos
                      ELSE ParseScan(bytes, i + 1,
                                     ShiftOr(idx_lat, pos.val[1]),
                                     ShiftOr(idx_lon, pos.val[2]),
                                     count + 1)
    ELSE IF count < 10 THEN InvalidLength(count)
    ELSE ParseTail(bytes, i, idx_lat, idx_lon, count)

\* mutant: every 12-byte input taken for the canonical form, the test of
\* bytes[3] and bytes[7] left out
parse_ascii_NoPositionCheck(bytes) ==
    LET len == Len(bytes)
    IN  IF len = 10
          THEN ParseAt(bytes, <<0, 1, 2, 3, 4, 5, 6, 7, 8, 9>>, 1, 0, 0)
        ELSE IF len = 12
          THEN ParseAt(bytes, <<0, 1, 2, 4, 5, 6, 8, 9, 10, 11>>, 1, 0, 0)
        ELSE ParseScan(bytes, 0, 0, 0, 0)

parse_ascii(bytes) ==
    LET len == Len(bytes)
    IN  IF len = 10
          THEN ParseAt(bytes, <<0, 1, 2, 3, 4, 5, 6, 7, 8, 9>>, 1, 0, 0)
        ELSE IF len = 12 /\ bytes[3 + 1] = HYPHEN /\ bytes[7 + 1] = HYPHEN
          THEN ParseAt(bytes, <<0, 1, 2, 4, 5, 6, 8, 9, 10, 11>>, 1, 0, 0)
        ELSE ParseScan(bytes, 0, 0, 0, 0)

\* the `for _ in 0..10` loop of parse_unicode over char_iter from position i
\* (1-based) of the filtered chars, then the check for an eleventh char
RECURSIVE UnicodeLoop(_, _, _, _, _)
UnicodeLoop(chars, i, idx_lat, idx_lon, count) ==
    IF count = 10
      THEN IF i <= Len(chars) THEN InvalidLength(11)
           ELSE Ok(<<idx_lat, idx_lon>>)
    ELSE IF i > Len(chars) THEN InvalidLength(count)
    ELSE LET pos == decoding_find_char_in_grid(chars[i])
         IN  IF ~pos.ok THEN pos
             ELSE UnicodeLoop(chars, i + 1,
                              ShiftOr(idx_lat, pos.val[1]),
                              ShiftOr(idx_lon, pos.val[2]),
                              count + 1)

parse_unicode(s) == UnicodeLoop(FilterHyphens(s), 1, 0, 0, 0)

\* center = BOUNDS.max_lat - ((idx as f64 + 0.5) / POWER_F) * SPAN, and for lon
decoding_CenterLat(idx_lat) ==
    F64Sub(BOUNDS.max_lat,
           F64Mul(F64Div(F64Add(AsF64(idx_lat), Half), POWER_F), SPAN))

\* mutant: the `+ 0.5` left out, the cell's west edge for its centre
decoding_CenterLon_NoHalf(idx_lon) ==
    F64Add(BOUNDS.min_lon, F64Mul(F64Div(AsF64(idx_lon), POWER_F), SPAN))

decoding_CenterLon(idx_lon) ==
    F64Add(BOUNDS.min_lon,
           F64Mul(F64Div(F64Add(AsF64(idx_lon), Half), POWER_F), SPAN))

decoding_get_coordinates_from_digipin(s) ==
    LET idx == IF is_ascii(s) THEN parse_ascii(s) ELSE parse_unicode(s)
    IN  IF ~idx.ok THEN idx
        ELSE Ok(Coordinates(decoding_CenterLat(idx.val[1]),
                            decoding_CenterLon(idx.val[2])))

\* types::GeoBounds
GeoBounds(min_lat, max_lat, min_lon, max_lon) ==
    [min_latitude |-> min_lat, max_latitude |-> max_lat,
     min_longitude |-> min_lon, max_longitude |-> max_lon]

\* min_frac = idx as f64 / power
MinFrac(i) == F64Div(AsF64(i), POWER_F)

\* mutant: the far edge taken two cells on, `+ 2.0` for `+ 1.0`
MaxFrac_TwoCells(i) == F64Div(F64Add(AsF64(i), F64Nat(2)), POWER_F)

\* max_frac = (idx as f64 + 1.0) / power
MaxFrac(i) == F64Div(F64Add(AsF64(i), One), POWER_F)

get_bounds_from_digipin(s) ==
    LET ix == IF is_ascii(s) THEN parse_ascii(s) ELSE parse_unicode(s)
    IN  IF ~ix.ok THEN ix
        ELSE LET idx_lat == ix.val[1]
                 idx_lon == ix.val[2]
                 max_lat == F64Sub(BOUNDS.max_lat, F64Mul(MinFrac(idx_lat), SPAN))
                 min_lat == F64Sub(BOUNDS.max_lat, F64Mul(MaxFrac(idx_lat), SPAN))
                 min_lon == F64Add(BOUNDS.min_lon, F64Mul(MinFrac(idx_lon), SPAN))
                 max_lon == F64Add(BOUNDS.min_lon, F64Mul(MaxFrac(idx_lon), SPAN))
             IN  Ok(GeoBounds(min_lat, max_lat, min_lon, max_lon))

---------------------------------------------------------------------------
(* Callers.  get_digipin is called on coordinates drawn from LatInputs and  *)
(* LonInputs and the code it returns is decoded again                       *)
(* (examples/basic_usage.rs, lib.rs test_encode_decode_roundtrip).          *)

MaxQuarter == 5

\* q quarters of a cell side, q * SPAN / POWER / 4 degrees (an f64, exactly)
QuarterCell(q) == DyMul(F64Nat(q), [m |-> <<9>>, e |-> -20])

\* quarter-cell offsets from an edge of the rectangle: the first and last
\* cells, the cells about the middle of the rectangle, the cells of New Delhi
\* (row 287953, column 399303), and one step past the far edge
QuarterOffsets ==
    (0..MaxQuarter) \cup ((4 * POWER - MaxQuarter)..(4 * POWER))
        \cup ((2 * POWER - 1)..(2 * POWER + 1))
        \cup {4 * c + j : c \in {287953, 399303}, j \in 0..MaxQuarter}
        \cup {4 * POWER + 1}

\* the distance from a positive f64 to the next f64 above it
Ulp(x) == [m |-> <<1>>, e |-> BLen(x.m) + x.e - 53]

\* the next f64 above x
NextUp(x) == DyAdd(x, Ulp(x))

\* the next f64 below x
NextDown(x) ==
    IF x.m = <<1>> THEN DySub(x, [m |-> <<1>>, e |-> x.e - 53])
    ELSE DySub(x, Ulp(x))

\* the latitude of the north edge of row k and the longitude of the west
\* edge of column k (each an f64, exactly)
NorthEdge(k) == DySub(BOUNDS.max_lat, QuarterCell(4 * k))

WestEdge(k) == DyAdd(BOUNDS.min_lon, QuarterCell(4 * k))

\* rows and columns whose edges are approached to the last binary digit:
\* rows with an edge below 16 degrees and above, the last row, and columns
\* with an edge below 64 degrees and above
EdgeRows == {100000, 500000, 700000, 900000, 1034000, POWER - 1}

EdgeColumns == {1, 14000, 500000, POWER - 1}

LatInputs ==
    {DySub(BOUNDS.max_lat, QuarterCell(q)) : q \in QuarterOffsets}
        \cup {NextUp(NorthEdge(k)) : k \in EdgeRows}
        \cup {NextDown(NorthEdge(k)) : k \in EdgeRows}
        \cup {Decimal(286139, 10000), Decimal(19076, 1000), F64Nat(1),
              F64Nat(50), F64Nat(28), Decimal(24999, 10000),
              Decimal(385001, 10000), NextDown(BOUNDS.min_lat),
              NextUp(BOUNDS.min_lat), NextUp(BOUNDS.max_lat),
              NextDown(BOUNDS.max_lat)}

LonInputs ==
    {DyAdd(BOUNDS.min_lon, QuarterCell(q)) : q \in QuarterOffsets}
        \cup {NextUp(WestEdge(k)) : k \in EdgeColumns}
        \cup {NextDown(WestEdge(k)) : k \in EdgeColumns}
        \cup {Decimal(772090, 10000), Decimal(728777, 10000), F64Nat(77),
              F64Nat(120), Decimal(634999, 10000), Decimal(995001, 10000),
              NextDown(BOUNDS.min_lon), NextUp(BOUNDS.max_lon)}

Init ==
    /\ op = "start"
    /\ latitude \in LatInputs
    /\ longitude \in LonInputs
    /\ encoded = NotCalled
    /\ encoded_alt = NotCalled
    /\ digipin = <<>>
    /\ decoded = NotCalled
    /\ decoded_alt = NotCalled
    /\ stripped = NotCalled
    /\ idx_pair = None
    /\ idx_pair_alt = None
    /\ parsed = NotCalled
    /\ bounds = NotCalled
    /\ reencoded = NotCalled
    /\ adjacent = NotCalled

\* let digipin = get_digipin(latitude, longitude), by both encoders
Encode ==
    /\ op = "start"
    /\ op' = "get_digipin"
    /\ encoded' = get_digipin(latitude, longitude)
    /\ encoded_alt' = encoding_get_digipin(latitude, longitude)
    /\ idx_pair' = get_digipin_indices(latitude, longitude)
    /\ idx_pair_alt' = encoding_get_digipin_indices(latitude, longitude)
    /\ UNCHANGED <<latitude, longitude, digipin, decoded, decoded_alt, stripped,
                   parsed, bounds, reencoded, adjacent>>

\* digipin.replace("-", "")
ReplaceHyphens(s) == SelectSeq(s, LAMBDA c : c # HYPHEN)

\* get_digipin(coords.latitude, coords.longitude) on a decoder's Ok result
Reencode(r) ==
    IF r.ok THEN get_digipin(r.val.latitude, r.val.longitude) ELSE NotCalled

\* get_coordinates_from_digipin(s), by both decoders, and of s without '-';
\* with them the index pairs of the parsers, get_bounds_from_digipin(s) and
\* the code of the decoded coordinates
DecodeCall(s) ==
    /\ digipin' = s
    /\ decoded' = get_coordinates_from_digipin(s)
    /\ decoded_alt' = decoding_get_coordinates_from_digipin(s)
    /\ stripped' = << get_coordinates_from_digipin(ReplaceHyphens(s)),
                      decoding_get_coordinates_from_digipin(ReplaceHyphens(s)) >>
    /\ parsed' = [chars   |-> DecodeLoop(FilterHyphens(s), 1, 0, 0, 0),
                  ascii   |-> IF is_ascii(s) THEN parse_ascii(s) ELSE NotCalled,
                  unicode |-> parse_unicode(s)]
    /\ bounds' = get_bounds_from_digipin(s)
    /\ reencoded' = Reencode(decoded')

\* let decoded = get_coordinates_from_digipin(&digipin) on the code just made
RoundTrip ==
    /\ op = "get_digipin"
    /\ encoded.ok
    /\ op' = "roundtrip"
    /\ DecodeCall(encoded.val)
    /\ UNCHANGED <<latitude, longitude, encoded, encoded_alt, idx_pair,
                   idx_pair_alt, adjacent>>

Next == Encode \/ RoundTrip

Spec == Init /\ [][Next]_vars

---------------------------------------------------------------------------
(* Callers of the decoder.  The input string is grown one char at a time    *)
(* from the symbols of a code made by get_digipin, '-' and chars that are   *)
(* no grid symbol; every string so made is decoded.                         *)

MaxLen == 12

MaxHyphens == 2

MaxOther == 1

\* 'Z' (decode.rs test_invalid_digipin), 'f' (a lowercase key of
\* constants.rs LOOKUP), U+00E9 (not ASCII)
OtherChars == {90, Ascii.f, 233}

\* New Delhi ("39J-438-TJC7") and the centre of the tests' "FCJ-3F9-8273"
BasePoints == { <<Decimal(286139, 10000), Decimal(772090, 10000)>>,
                <<CenterLat(20501), CenterLon(70381)>> }

GridSymbols == {DIGIPIN_GRID[r][c] : r \in 1..4, c \in 1..4}

CountIn(s, set) == Cardinality({i \in 1..Len(s) : s[i] \in set})

\* the symbols of the base code, taken round again after the tenth
NextSymbol == ReplaceHyphens(encoded.val)[(CountIn(digipin, GridSymbols) % 10) + 1]

InitDecode ==
    /\ op = "get_digipin"
    /\ \E pt \in BasePoints :
         /\ latitude = pt[1]
         /\ longitude = pt[2]
         /\ encoded = get_digipin(pt[1], pt[2])
         /\ encoded_alt = encoding_get_digipin(pt[1], pt[2])
         /\ idx_pair = get_digipin_indices(pt[1], pt[2])
         /\ idx_pair_alt = encoding_get_digipin_indices(pt[1], pt[2])
    /\ digipin = <<>>
    /\ decoded = NotCalled
    /\ decoded_alt = NotCalled
    /\ stripped = NotCalled
    /\ parsed = NotCalled
    /\ bounds = NotCalled
    /\ reencoded = NotCalled
    /\ adjacent = NotCalled

DecodeAppend(ch) ==
    /\ Len(digipin) < MaxLen
    /\ op' = "get_coordinates_from_digipin"
    /\ DecodeCall(Append(digipin, ch))
    /\ UNCHANGED <<latitude, longitude, encoded, encoded_alt, idx_pair,
                   idx_pair_alt, adjacent>>

AppendSymbol == DecodeAppend(NextSymbol)

AppendHyphen ==
    /\ CountIn(digipin, {HYPHEN}) < MaxHyphens
    /\ DecodeAppend(HYPHEN)

AppendOther ==
    /\ CountIn(digipin, OtherChars) < MaxOther
    /\ \E ch \in OtherChars : DecodeAppend(ch)

NextDecode == AppendSymbol \/ AppendHyphen \/ AppendOther

SpecDecode == InitDecode /\ [][NextDecode]_vars

---------------------------------------------------------------------------
(* Callers over cells.  get_digipin is called on the centre of a cell, its   *)
(* code is decoded by get_coordinates_from_digipin and                      *)
(* get_bounds_from_digipin, and get_bounds_from_digipin is called on the    *)
(* codes of the next cell to the south and of the next cell to the east.    *)

MaxNear == 2

\* cell indices on one axis: one nonzero base-4 digit at each of the 10
\* levels, the first and last cells of the axis, and the rows and columns of
\* "39J-438-TJC7" and "FCJ-3F9-8273"
CellIndices ==
    {d * 4^k : d \in 1..3, k \in 0..9}
        \cup (0..MaxNear) \cup ((POWER - 1 - MaxNear)..(POWER - 1))
        \cup {287953, 399303, 20501, 70381}

\* the code of the cell in row idx_lat and column idx_lon
CodeOfCell(idx_lat, idx_lon) == PushLevels(<<>>, 0, idx_lat, idx_lon)

InitCells ==
    /\ op = "start"
    /\ \E i \in CellIndices : latitude = CenterLat(i)
    /\ \E j \in CellIndices : longitude = CenterLon(j)
    /\ encoded = NotCalled
    /\ encoded_alt = NotCalled
    /\ digipin = <<>>
    /\ decoded = NotCalled
    /\ decoded_alt = NotCalled
    /\ stripped = NotCalled
    /\ idx_pair = None
    /\ idx_pair_alt = None
    /\ parsed = NotCalled
    /\ bounds = NotCalled
    /\ reencoded = NotCalled
    /\ adjacent = NotCalled

\* get_bounds_from_digipin on the code of the cell one row further south and
\* on the code of the cell one column further east, where there is one
Adjacent ==
    /\ op = "roundtrip"
    /\ idx_pair # None
    /\ op' = "adjacent"
    /\ adjacent' =
          [south |-> IF idx_pair[1] + 1 < POWER
                       THEN get_bounds_from_digipin(
                                CodeOfCell(idx_pair[1] + 1, idx_pair[2]))
                       ELSE NotCalled,
           east  |-> IF idx_pair[2] + 1 < POWER
                       THEN get_bounds_from_digipin(
                                CodeOfCell(idx_pair[1], idx_pair[2] + 1))
                       ELSE NotCalled]
    /\ UNCHANGED <<latitude, longitude, encoded, encoded_alt, digipin, decoded,
                   decoded_alt, stripped, idx_pair, idx_pair_alt, parsed,
                   bounds, reencoded>>

NextCells == Encode \/ RoundTrip \/ Adjacent

SpecCells == InitCells /\ [][NextCells]_vars

---------------------------------------------------------------------------
(* Properties of get_digipin and of the round trip, under Spec *)

\* 2.5, 38.5, 63.5 and 99.5 degrees
MinLat == [m |-> <<5>>, e |-> -1]

MaxLat == [m |-> <<77>>, e |-> -1]

MinLon == [m |-> <<127>>, e |-> -1]

MaxLon == [m |-> <<199>>, e |-> -1]

LatInRange(lat) == DyLe(MinLat, lat) /\ DyLe(lat, MaxLat)

LonInRange(lon) == DyLe(MinLon, lon) /\ DyLe(lon, MaxLon)

InRectangle(lat, lon) == LatInRange(lat) /\ LonInRange(lon)

\* span / power / 2, exactly
HalfCell == QuarterCell(2)

\* |a - b|, exactly
Distance(a, b) == IF DyLe(b, a) THEN DySub(a, b) ELSE DySub(b, a)

Called == op # "start"

\* the most by which the f64 roundings of `BOUNDS.max_lat - latitude` and of
\* `/ SPAN` can move a latitude across a cell edge: 2^-47 degrees
RoundingSlack == [m |-> <<1>>, e |-> -47]

\* C1, as stated. Round-trip bound: for every (lat, lon) in the rectangle
\* get_digipin succeeds, and decoding its result gives a latitude within
\* span/power/2 of lat and a longitude within span/power/2 of lon.
C1_RoundTripBound ==
    /\ (Called /\ InRectangle(latitude, longitude)) => encoded.ok
    /\ (op = "roundtrip" /\ InRectangle(latitude, longitude)) =>
          /\ decoded.ok
          /\ DyLe(Distance(decoded.val.latitude, latitude), HalfCell)
          /\ DyLe(Distance(decoded.val.longitude, longitude), HalfCell)

\* C1, amended. Round-trip bound: for every (lat, lon) in the rectangle
\* get_digipin succeeds, and decoding its result gives a latitude within
\* span/power/2 + 2^-47 of lat and a longitude within span/power/2 of lon.
C1_RoundTripBound_Amended ==
    /\ (Called /\ InRectangle(latitude, longitude)) => encoded.ok
    /\ (op = "roundtrip" /\ InRectangle(latitude, longitude)) =>
          /\ decoded.ok
          /\ DyLe(Distance(decoded.val.latitude, latitude),
                  DyAdd(HalfCell, RoundingSlack))
          /\ DyLe(Distance(decoded.val.longitude, longitude), HalfCell)

\* a round trip from the f64 next above a cell edge, which falls in the cell
\* south of the edge: the latitude error exceeds span/power/2, within the
\* slack
C1_Witness ==
    /\ op = "roundtrip"
    /\ InRectangle(latitude, longitude)
    /\ decoded.ok
    /\ DyLt(HalfCell, Distance(decoded.val.latitude, latitude))
    /\ DyLe(Distance(decoded.val.latitude, latitude),
            DyAdd(HalfCell, RoundingSlack))
    /\ DyLe(Distance(decoded.val.longitude, longitude), HalfCell)

NewDelhi == <<Decimal(286139, 10000), Decimal(772090, 10000)>>

\* "39J-438-TJC7"
NewDelhiCode ==
    <<Ascii.n3, Ascii.n9, Ascii.J, HYPHEN, Ascii.n4, Ascii.n3, Ascii.n8, HYPHEN,
      Ascii.T, Ascii.J, Ascii.C, Ascii.n7>>

\* C2. Concrete vector: get_digipin(28.6139, 77.2090) returns exactly
\* "39J-438-TJC7", the code of latitude index 287953 and longitude index
\* 399303 mapped digit by digit through the grid.
C2_ConcreteVector ==
    (Called /\ <<latitude, longitude>> = NewDelhi) =>
        /\ encoded = Ok(NewDelhiCode)
        /\ encoded.val = PushLevels(<<>>, 0, 287953, 399303)

C2_Witness ==
    /\ op = "get_digipin"
    /\ <<latitude, longitude>> = NewDelhi
    /\ encoded.ok

\* C3. Range enforcement: get_digipin succeeds iff 2.5 <= lat <= 38.5 and
\* 63.5 <= lon <= 99.5; a latitude out of range fails with
\* LatitudeOutOfRange(lat); a longitude out of range, the latitude being in
\* range, fails with LongitudeOutOfRange(lon).
C3_RangeEnforcement ==
    Called =>
        /\ encoded.ok <=> InRectangle(latitude, longitude)
        /\ ~LatInRange(latitude) =>
              /\ IsErr(encoded, "LatitudeOutOfRange")
              /\ encoded.arg = latitude
        /\ (LatInRange(latitude) /\ ~LonInRange(longitude)) =>
              /\ IsErr(encoded, "LongitudeOutOfRange")
              /\ encoded.arg = longitude

\* the latitude on the inclusive end 2.5 and the longitude just past 99.5
C3_Witness ==
    /\ op = "get_digipin"
    /\ latitude = MinLat
    /\ DyLt(MaxLon, longitude)
    /\ IsErr(encoded, "LongitudeOutOfRange")

WellFormedCode(s) ==
    /\ Len(s) = 12
    /\ \A i \in 1..Len(s) :
         IF i = 3 + 1 \/ i = 7 + 1 THEN s[i] = HYPHEN ELSE s[i] \in GridSymbols

\* C4. Output format: every successful get_digipin result (of encode.rs and
\* of encoding.rs) has exactly 12 characters, '-' at 0-based positions 3 and
\* 7 and nowhere else, and a grid symbol in each of the other 10 positions.
C4_OutputFormat ==
    /\ encoded.ok => WellFormedCode(encoded.val)
    /\ encoded_alt.ok => WellFormedCode(encoded_alt.val)

C4_Witness ==
    /\ op = "get_digipin"
    /\ encoded.ok /\ Len(encoded.val) = 12
    /\ encoded_alt.ok /\ Len(encoded_alt.val) = 12

\* C10. Validation order: when latitude and longitude are both out of range,
\* get_digipin (of encode.rs and of encoding.rs) fails with
\* LatitudeOutOfRange(latitude), never with LongitudeOutOfRange.
C10_LatitudeCheckedFirst ==
    (Called /\ ~LatInRange(latitude) /\ ~LonInRange(longitude)) =>
        /\ IsErr(encoded, "LatitudeOutOfRange") /\ encoded.arg = latitude
        /\ IsErr(encoded_alt, "LatitudeOutOfRange") /\ encoded_alt.arg = latitude

C10_Witness ==
    /\ op = "get_digipin"
    /\ ~LatInRange(latitude) /\ ~LonInRange(longitude)
    /\ IsErr(encoded, "LatitudeOutOfRange")

IndexRange == 0..(POWER - 1)

IsCorner(lat, lon) ==
    /\ lat \in {MinLat, MaxLat}
    /\ lon \in {MinLon, MaxLon}

\* C11. Boundary clamping: for every in-range input the latitude and
\* longitude indices get_digipin computes (encode.rs and encoding.rs) lie in
\* [0, 2^20 - 1]; on the edges latitude 2.5 and longitude 99.5, where the
\* fraction is exactly 1.0, the index is 2^20 - 1; at each of the four corners
\* encoding succeeds and decoding its result gives a point within
\* span/power/2 of the corner on each axis.
C11_BoundaryClamping ==
    /\ (Called /\ InRectangle(latitude, longitude)) =>
          /\ idx_pair # None /\ idx_pair_alt # None
          /\ idx_pair[1] \in IndexRange /\ idx_pair[2] \in IndexRange
          /\ idx_pair_alt[1] \in IndexRange /\ idx_pair_alt[2] \in IndexRange
          /\ latitude = MinLat =>
                idx_pair[1] = POWER - 1 /\ idx_pair_alt[1] = POWER - 1
          /\ longitude = MaxLon =>
                idx_pair[2] = POWER - 1 /\ idx_pair_alt[2] = POWER - 1
    /\ (Called /\ IsCorner(latitude, longitude)) =>
          encoded.ok /\ encoded_alt.ok
    /\ (op = "roundtrip" /\ IsCorner(latitude, longitude)) =>
          /\ decoded.ok
          /\ DyLe(Distance(decoded.val.latitude, latitude), HalfCell)
          /\ DyLe(Distance(decoded.val.longitude, longitude), HalfCell)

\* the round trip of the corner (2.5, 99.5), both fractions exactly 1.0
C11_Witness ==
    /\ op = "roundtrip"
    /\ latitude = MinLat /\ longitude = MaxLon
    /\ idx_pair = Some(POWER - 1, POWER - 1)
    /\ idx_pair_alt = Some(POWER - 1, POWER - 1)
    /\ decoded.ok
    /\ Distance(decoded.val.latitude, latitude) = HalfCell

---------------------------------------------------------------------------
(* Properties of get_coordinates_from_digipin, under SpecDecode *)

Decoding == op = "get_coordinates_from_digipin"

AllGrid(chars) == \A i \in 1..Len(chars) : chars[i] \in GridSymbols

\* the first char of chars that is no grid symbol
FirstNonGrid(chars) ==
    chars[CHOOSE i \in 1..Len(chars) :
            /\ chars[i] \notin GridSymbols
            /\ \A j \in 1..(i - 1) : chars[j] \in GridSymbols]

\* C5. Separator insensitivity: when the chars of the input other than '-'
\* are exactly 10 grid symbols, wherever and however many the '-' are, each
\* decoder succeeds and returns the coordinates it returns for the input with
\* every '-' removed.
C5_SeparatorInsensitive ==
    (Decoding /\ Len(ReplaceHyphens(digipin)) = 10 /\ AllGrid(ReplaceHyphens(digipin))) =>
        /\ decoded.ok /\ stripped[1].ok
        /\ decoded.val = stripped[1].val
        /\ decoded_alt.ok /\ stripped[2].ok
        /\ decoded_alt.val = stripped[2].val

\* 12 chars with the two '-' first and last, not at positions 3 and 7
C5_Witness ==
    /\ Decoding
    /\ Len(digipin) = 12
    /\ digipin[1] = HYPHEN /\ digipin[12] = HYPHEN
    /\ AllGrid(ReplaceHyphens(digipin))
    /\ decoded.ok /\ decoded_alt.ok
    /\ decoded_alt.val = stripped[2].val

\* C6. Alphabet closure: when the input has, at any position, a char that is
\* neither '-' nor one of the 16 grid symbols, get_coordinates_from_digipin
\* (decode.rs) fails with InvalidCharacter of the first such char, also when
\* it comes after 10 valid symbols.
C6_AlphabetClosure ==
    (Decoding /\ ~AllGrid(ReplaceHyphens(digipin))) =>
        /\ IsErr(decoded, "InvalidCharacter")
        /\ decoded.arg = FirstNonGrid(ReplaceHyphens(digipin))

\* C7. Too-short input: when the chars other than '-' are all grid symbols
\* and number n < 10, whatever the total length and the places of the '-',
\* each decoder fails with InvalidLength(n).
C7_TooShort ==
    (Decoding /\ AllGrid(ReplaceHyphens(digipin)) /\ Len(ReplaceHyphens(digipin)) < 10) =>
        /\ decoded = InvalidLength(Len(ReplaceHyphens(digipin)))
        /\ decoded_alt = InvalidLength(Len(ReplaceHyphens(digipin)))

\* C8. Too-long input: when the first 10 chars other than '-' are grid
\* symbols and at least one more char other than '-' follows, each decoder
\* fails with InvalidLength(11), whatever the number of chars.
C8_TooLong ==
    (/\ Decoding
     /\ Len(ReplaceHyphens(digipin)) > 10
     /\ AllGrid(SubSeq(ReplaceHyphens(digipin), 1, 10))) =>
        /\ decoded = InvalidLength(11)
        /\ decoded_alt = InvalidLength(11)

\* 12 chars other than '-', the eleventh of them no grid symbol
C8_Witness ==
    /\ Decoding
    /\ Len(ReplaceHyphens(digipin)) = 12
    /\ AllGrid(SubSeq(ReplaceHyphens(digipin), 1, 10))
    /\ ReplaceHyphens(digipin)[11] \in OtherChars
    /\ decoded = InvalidLength(11)
    /\ decoded_alt = InvalidLength(11)

\* C9. Character error before length error: when the input has fewer than 10
\* chars other than '-' and one of them is no grid symbol, the decoder
\* (decoding.rs) fails with InvalidCharacter of the first such char, never
\* with InvalidLength and never with InvalidCharacter('-').
C9_CharacterBeforeLength ==
    (/\ Decoding
     /\ Len(ReplaceHyphens(digipin)) < 10
     /\ ~AllGrid(ReplaceHyphens(digipin))) =>
        /\ IsErr(decoded_alt, "InvalidCharacter")
        /\ decoded_alt.arg = FirstNonGrid(ReplaceHyphens(digipin))

\* C14. Lookup table is the exact inverse of the grid: the 16 symbols of
\* DIGIPIN_GRID are pairwise distinct, and for every character code c in
\* 0..127 the LOOKUP table (of constants.rs and of decoding.rs) has
\* Some((row, col)) at c iff DIGIPIN_GRID[row][col] is the character c; every
\* other character, the lowercase letters included, is a miss.
C14_LookupInverse ==
    /\ Cardinality(GridSymbols) = 16
    /\ \A c \in 0..127 : \A row \in 0..3, col \in 0..3 :
          /\ LOOKUP[c] = Some(row, col) <=> DIGIPIN_GRID[row + 1][col + 1] = c
          /\ decoding_LOOKUP[c] = Some(row, col) <=>
                DIGIPIN_GRID[row + 1][col + 1] = c
    /\ \A c \in (0..127) \ GridSymbols :
          LOOKUP[c] = None /\ decoding_LOOKUP[c] = None
    /\ \A i \in 1..Len(digipin) :
          (Decoding /\ digipin[i] <= 127) =>
              (find_char_in_grid(digipin[i]).ok <=> digipin[i] \in GridSymbols)

\* C16. Fast path and general path agree: for every ASCII input parse_ascii
\* returns what parse_unicode returns for the same string, the same index
\* pair or the same error variant with the same payload.
C16_FastPathAgrees ==
    (Decoding /\ is_ascii(digipin)) => parsed.ascii = parsed.unicode

\* its 10 symbols in the same order with '-' after the 3rd and the 6th
Canonical(s) ==
    LET chars == FilterHyphens(s)
    IN  SubSeq(chars, 1, 3) \o <<HYPHEN>> \o SubSeq(chars, 4, 6) \o <<HYPHEN>>
            \o SubSeq(chars, 7, 10)

StrictlyInside(lat, lon) ==
    /\ DyLt(MinLat, lat) /\ DyLt(lat, MaxLat)
    /\ DyLt(MinLon, lon) /\ DyLt(lon, MaxLon)

\* C17. Canonical re-encoding: for every string that
\* get_coordinates_from_digipin decodes successfully the decoded centre is
\* strictly inside the rectangle, get_digipin of it succeeds and returns the
\* canonical form of the string: its 10 symbols in order, '-' after the 3rd
\* and the 6th.
C17_CanonicalReencoding ==
    (Decoding /\ decoded.ok) =>
        /\ StrictlyInside(decoded.val.latitude, decoded.val.longitude)
        /\ reencoded.ok
        /\ reencoded.val = Canonical(digipin)

---------------------------------------------------------------------------
(* Properties of the cells, under SpecCells *)

\* (a + b) / 2
Midpoint(a, b) == DyMul(DyAdd(a, b), [m |-> <<1>>, e |-> -1])

\* C12. Bounds consistency: for every code that is valid the coordinates
\* get_coordinates_from_digipin returns are the midpoint of the rectangle
\* get_bounds_from_digipin returns for it: latitude = (min_latitude +
\* max_latitude)/2 and longitude = (min_longitude + max_longitude)/2.
C12_BoundsConsistency ==
    /\ decoded_alt.ok <=> bounds.ok
    /\ decoded_alt.ok =>
          /\ decoded_alt.val.latitude =
                Midpoint(bounds.val.min_latitude, bounds.val.max_latitude)
          /\ decoded_alt.val.longitude =
                Midpoint(bounds.val.min_longitude, bounds.val.max_longitude)

\* the code of the last cell of both axes, "TTT-TTT-TTTT"
C12_Witness ==
    /\ op = "roundtrip"
    /\ idx_pair = Some(POWER - 1, POWER - 1)
    /\ decoded_alt.ok /\ bounds.ok
    /\ decoded_alt.val.latitude =
          Midpoint(bounds.val.min_latitude, bounds.val.max_latitude)
    /\ bounds.val.min_latitude = MinLat

\* C13. Cell tiling: the rectangle of a cell has min < max on both axes; the
\* cell one row south has for its max_latitude the min_latitude of the cell
\* and the same longitudes; the cell one column east has for its
\* min_longitude the max_longitude of the cell and the same latitudes; row 0
\* starts at latitude 38.5, row 2^20 - 1 ends at 2.5, column 0 starts at
\* longitude 63.5 and column 2^20 - 1 ends at 99.5.
C13_CellTiling ==
    op = "adjacent" =>
        /\ bounds.ok
        /\ DyLt(bounds.val.min_latitude, bounds.val.max_latitude)
        /\ DyLt(bounds.val.min_longitude, bounds.val.max_longitude)
        /\ adjacent.south.ok <=> idx_pair[1] < POWER - 1
        /\ adjacent.south.ok =>
              /\ adjacent.south.val.max_latitude = bounds.val.min_latitude
              /\ DyLt(adjacent.south.val.min_latitude, bounds.val.min_latitude)
              /\ adjacent.south.val.min_longitude = bounds.val.min_longitude
              /\ adjacent.south.val.max_longitude = bounds.val.max_longitude
        /\ adjacent.east.ok <=> idx_pair[2] < POWER - 1
        /\ adjacent.east.ok =>
              /\ adjacent.east.val.min_longitude = bounds.val.max_longitude
              /\ DyLt(bounds.val.max_longitude, adjacent.east.val.max_longitude)
              /\ adjacent.east.val.min_latitude = bounds.val.min_latitude
              /\ adjacent.east.val.max_latitude = bounds.val.max_latitude
        /\ idx_pair[1] = 0 => bounds.val.max_latitude = MaxLat
        /\ idx_pair[1] = POWER - 1 => bounds.val.min_latitude = MinLat
        /\ idx_pair[2] = 0 => bounds.val.min_longitude = MinLon
        /\ idx_pair[2] = POWER - 1 => bounds.val.max_longitude = MaxLon
        /\ DyLe(MinLat, bounds.val.min_latitude)
        /\ DyLe(bounds.val.max_latitude, MaxLat)
        /\ DyLe(MinLon, bounds.val.min_longitude)
        /\ DyLe(bounds.val.max_longitude, MaxLon)

\* a cell inside the grid with both neighbours, sharing one edge with each
C13_Witness ==
    /\ op = "adjacent"
    /\ idx_pair = Some(287953, 399303)
    /\ adjacent.south.ok /\ adjacent.east.ok
    /\ adjacent.south.val.max_latitude = bounds.val.min_latitude
    /\ adjacent.east.val.min_longitude = bounds.val.max_longitude

\* C15. Digit order agreement: the 10 symbols get_digipin emits for
\* (idx_lat, idx_lon) are grid[row][col] of the 2-bit digits of idx_lat and
\* idx_lon, most significant first, and the shift-and-OR loop of
\* get_coordinates_from_digipin parses them back to (idx_lat, idx_lon); no
\* other row of the same column and no other column of the same row has the
\* same code.
C15_DigitOrderAgreement ==
    (op \in {"roundtrip", "adjacent"} /\ idx_pair # None) =>
        /\ \A level \in 0..9 :
              FilterHyphens(encoded.val)[level + 1] =
                  DIGIPIN_GRID[Digit(idx_pair[1], 18 - 2 * level) + 1]
                              [Digit(idx_pair[2], 18 - 2 * level) + 1]
        /\ digipin = encoded.val
        /\ parsed.chars = Ok(idx_pair)
        /\ \A i \in CellIndices :
              CodeOfCell(i, idx_pair[2]) = encoded.val => i = idx_pair[1]
        /\ \A j \in CellIndices :
              CodeOfCell(idx_pair[1], j) = encoded.val => j = idx_pair[2]

\* a cell whose row and column have one nonzero digit each, at different
\* levels: row 2 * 4^9, column 3
C15_Witness ==
    /\ op = "roundtrip"
    /\ idx_pair = Some(2 * 4^9, 3)
    /\ parsed.chars = Ok(idx_pair)

===========================================================================
